---- MODULE Spec2Model ----
(***************************************************************************)
(* A model of duetbackup (src/duetbackup.go): the recursive mirror of a    *)
(* Duet board's file tree onto the local disk.                             *)
(*                                                                         *)
(* Strings are sequences of one-character strings, so that prefix tests,   *)
(* concatenation, path cleaning and query escaping are computed as the     *)
(* code computes them.  A local path is resolved to its list of segments,  *)
(* which is the key of the node in the local file system fs.               *)
(***************************************************************************)
EXTENDS Integers, Sequences, FiniteSets, TLC

VARIABLES
    remote,       \* the device's tree: directory path -> entries in arrival order
    pageSize,     \* how many entries the device puts into one rr_filelist page
    excls,        \* excludes.excls: the cleaned -exclude prefixes
    removeLocal,  \* the -removeLocal flag
    fs,           \* the local file system: segment list -> node
    fs0,          \* the local file system before the first run
    now,          \* the local wall clock, in seconds
    stack,        \* the call stack of syncFolder, innermost frame last
    status,       \* "idle" | "running" | "done" | "failed"
    run,          \* number of runs of main started so far
    log,          \* every remote request and local operation performed, in order
    faults,       \* number of environment failures that have happened
    fetched,      \* SpecList: <<what getFileList returned>>, <<>> before the call
    echo,         \* how the device spells the directory in its answers
    asked         \* SpecExcl: the calls of Contains made, with their answers

vars == <<remote, pageSize, excls, removeLocal, fs, fs0, now, stack, status,
          run, log, faults, fetched, echo, asked>>

\* ------------------------------------------------------------------ bounds
MaxEntries == 2
MaxDate == 2
MaxClock == 2
MaxRuns == 2
MaxFaults == 1
MaxLen == 3

\* --------------------------------------------------------------- constants
sysDir == <<"0", ":", "/", "s", "y", "s">>
typeDirectory == "d"
typeFile == "f"
dirMarker == <<".", "d", "u", "e", "t", "b", "a", "c", "k", "u", "p">>

\* ----------------------------------------------------------------- strings
\* The byte value of a character, for Go's < on strings.
Ord(c) ==
    CASE c = "%" -> 37 [] c = "+" -> 43 [] c = "." -> 46 [] c = "/" -> 47
      [] c = "0" -> 48 [] c = "2" -> 50 [] c = "3" -> 51 [] c = "5" -> 53
      [] c = ":" -> 58 [] c = "A" -> 65 [] c = "F" -> 70
      [] c = "a" -> 97 [] c = "b" -> 98 [] c = "c" -> 99 [] c = "d" -> 100
      [] c = "e" -> 101 [] c = "k" -> 107 [] c = "o" -> 111 [] c = "p" -> 112
      [] c = "s" -> 115 [] c = "t" -> 116 [] c = "u" -> 117 [] c = "x" -> 120
      [] c = "y" -> 121

RECURSIVE StrLess(_, _)
StrLess(a, b) ==
    IF b = <<>> THEN FALSE
    ELSE IF a = <<>> THEN TRUE
    ELSE IF a[1] = b[1] THEN StrLess(Tail(a), Tail(b))
    ELSE Ord(a[1]) < Ord(b[1])

HasPrefix(s, prefix) ==
    Len(prefix) <= Len(s) /\ SubSeq(s, 1, Len(prefix)) = prefix

HasSuffix(s, suffix) ==
    Len(suffix) <= Len(s) /\ SubSeq(s, Len(s) - Len(suffix) + 1, Len(s)) = suffix

TrimSuffix(s, suffix) ==
    IF HasSuffix(s, suffix)
    THEN SubSeq(s, 1, Len(s) - Len(suffix))
    ELSE s

RECURSIVE ReplaceMultiSlash(_)
ReplaceMultiSlash(s) ==
    IF s = <<>> THEN <<>>
    ELSE IF Len(s) >= 2 /\ s[1] = "/" /\ s[2] = "/" THEN ReplaceMultiSlash(Tail(s))
    ELSE <<s[1]>> \o ReplaceMultiSlash(Tail(s))

cleanPath(path) == TrimSuffix(ReplaceMultiSlash(path), <<"/">>)

Contains(e, path) == \E k \in 1..Len(e) : HasPrefix(path, e[k])

EscapeChar(c) ==
    CASE c = "/" -> <<"%", "2", "F">>
      [] c = ":" -> <<"%", "3", "A">>
      [] c = "%" -> <<"%", "2", "5">>
      [] OTHER -> <<c>>

RECURSIVE QueryEscape(_)
QueryEscape(s) ==
    IF s = <<>> THEN <<>> ELSE EscapeChar(s[1]) \o QueryEscape(Tail(s))

RECURSIVE QueryUnescape(_)
QueryUnescape(s) ==
    IF s = <<>> THEN <<>>
    ELSE IF s[1] = "%" /\ Len(s) >= 3
         THEN LET hex == SubSeq(s, 2, 3)
                  c == CASE hex = <<"2", "F">> -> "/"
                         [] hex = <<"3", "A">> -> ":"
                         [] hex = <<"2", "5">> -> "%"
              IN <<c>> \o QueryUnescape(SubSeq(s, 4, Len(s)))
         ELSE <<s[1]>> \o QueryUnescape(Tail(s))

Front(s) == SubSeq(s, 1, Len(s) - 1)
Last(s) == s[Len(s)]

\* ------------------------------------------------------------ local paths
\* strings.Split(path, "/")
RECURSIVE SplitAt(_, _)
SplitAt(s, cur) ==
    IF s = <<>> THEN <<cur>>
    ELSE IF s[1] = "/" THEN <<cur>> \o SplitAt(Tail(s), <<>>)
    ELSE SplitAt(Tail(s), Append(cur, s[1]))

\* The segments a rooted path names: empty and "." elements dropped, ".."
\* steps back to the parent (the root is its own parent).
RECURSIVE Normalize(_, _)
Normalize(raw, acc) ==
    IF raw = <<>> THEN acc
    ELSE LET h == raw[1] IN
         IF h = <<>> \/ h = <<".">> THEN Normalize(Tail(raw), acc)
         ELSE IF h = <<".", ".">>
              THEN Normalize(Tail(raw), IF acc = <<>> THEN <<>> ELSE Front(acc))
              ELSE Normalize(Tail(raw), Append(acc, h))

Resolve(path) == Normalize(SplitAt(path, <<>>), <<>>)

RECURSIVE Unsplit(_)
Unsplit(segs) ==
    IF segs = <<>> THEN <<>> ELSE <<"/">> \o segs[1] \o Unsplit(Tail(segs))

\* filepath.Clean of a rooted path
Clean(path) == IF Resolve(path) = <<>> THEN <<"/">> ELSE Unsplit(Resolve(path))

\* filepath.Join(a, b): the elements joined by a separator, then cleaned
Join(a, b) == Clean(a \o <<"/">> \o b)

\* filepath.Abs of an absolute path
Abs(path) == Clean(path)

\* ------------------------------------------------------- the remote device
Entry(t, n, d) == [Type |-> t, Name |-> n, Size |-> 0, Date |-> d]

\* The device's answer to rr_filelist: the entries from index first on, at
\* most pageSize of them, and next = the index to continue from, 0 at the end.
\* The answer names the directory: as it was asked for (echo = "same"), or
\* in the device's own spelling, with a closing slash (echo = "slash").
ServerFileList(req) ==
    LET dir == QueryUnescape(req.dir)
        first == IF "first" \in DOMAIN req THEN req.first ELSE 0
        all == IF dir \in DOMAIN remote THEN remote[dir] ELSE <<>>
        last == IF first + pageSize < Len(all) THEN first + pageSize ELSE Len(all)
    IN [dir |-> IF echo = "same" THEN dir ELSE dir \o <<"/">>,
        files |-> SubSeq(all, first + 1, last),
        next |-> IF last < Len(all) THEN last ELSE 0]

\* The device's answer to rr_download: the bytes of the file of that name,
\* identified here by the name.
ServerDownload(req) == QueryUnescape(req.name)

\* ----------------------------------------------------------- getFileList
\* baseURL + fileListURL + dir: the request carries no first parameter.
FileListRequest(dir, first) == [dir |-> dir]

\* json.Unmarshal into filelist: Dir and Files are exported and decoded; next
\* is an unexported field, which encoding/json never sets.
Unmarshal(resp) == [Dir |-> resp.dir, Files |-> resp.files, next |-> 0]

\* A less function that compares the names only.
LessByName(x, y) == StrLess(x.Name, y.Name)

\* The less function handed to sort.SliceStable.
Less(x, y) ==
    IF x.Type = y.Type THEN StrLess(x.Name, y.Name) ELSE x.Type = typeDirectory

\* A stable sort: each element moves left past the elements it is less than.
RECURSIVE InsertStable(_, _)
InsertStable(sorted, x) ==
    IF sorted = <<>> THEN <<x>>
    ELSE IF Less(x, Last(sorted))
         THEN Append(InsertStable(Front(sorted), x), Last(sorted))
         ELSE Append(sorted, x)

RECURSIVE SliceStable(_)
SliceStable(s) ==
    IF s = <<>> THEN <<>> ELSE InsertStable(SliceStable(Front(s)), Last(s))

\* The requests getFileList(dir, first) sends, in order.
RECURSIVE getFileListRequests(_, _)
getFileListRequests(dir, first) ==
    LET req == FileListRequest(dir, first)
        fl == Unmarshal(ServerFileList(req))
    IN IF fl.next > 0 THEN <<req>> \o getFileListRequests(dir, fl.next) ELSE <<req>>

RECURSIVE getFileList(_, _)
getFileList(dir, first) ==
    LET fl == Unmarshal(ServerFileList(FileListRequest(dir, first)))
        all == IF fl.next > 0
               THEN fl.Files \o getFileList(dir, fl.next).Files
               ELSE fl.Files
    IN [fl EXCEPT !.Files = SliceStable(all)]

\* ------------------------------------------------- the local file system
Dir(t) == [kind |-> "d", mtime |-> t, data |-> <<>>]
File(t, body) == [kind |-> "f", mtime |-> t, data |-> body]

IsUnder(p, d) == Len(d) <= Len(p) /\ SubSeq(p, 1, Len(d)) = d

\* os.Stat: "ok", "notexist" (ENOENT), or "error" (ENOTDIR: an element of the
\* path is a regular file).
Stat(f, p) ==
    IF \E k \in 0..(Len(p) - 1) :
          SubSeq(p, 1, k) \in DOMAIN f /\ f[SubSeq(p, 1, k)].kind = "f"
    THEN "error"
    ELSE IF p \in DOMAIN f THEN "ok" ELSE "notexist"

\* A change of a directory's entries sets the directory's modification time.
TouchParent(f, p) ==
    IF Len(p) > 0 /\ Front(p) \in DOMAIN f
    THEN [f EXCEPT ![Front(p)].mtime = now] ELSE f

\* os.MkdirAll
MkdirAllOk(f, p) ==
    \A k \in 0..Len(p) :
        SubSeq(p, 1, k) \in DOMAIN f => f[SubSeq(p, 1, k)].kind = "d"
MkdirAll(f, p) ==
    LET new == {SubSeq(p, 1, k) : k \in 0..Len(p)} \ DOMAIN f
        g == [q \in DOMAIN f \cup new |-> IF q \in new THEN Dir(now) ELSE f[q]]
    IN [q \in DOMAIN g |->
          IF q \notin new /\ (\E c \in new : Front(c) = q)
          THEN [g[q] EXCEPT !.mtime = now] ELSE g[q]]

\* os.Create: the parent must be a directory and the path not one; the file
\* is created or truncated.
CreateOk(f, p) ==
    /\ Len(p) > 0
    /\ Front(p) \in DOMAIN f /\ f[Front(p)].kind = "d"
    /\ p \in DOMAIN f => f[p].kind = "f"
Create(f, p) ==
    LET g == IF p \in DOMAIN f THEN f ELSE TouchParent(f, p)
    IN [q \in DOMAIN g \cup {p} |-> IF q = p THEN File(now, <<>>) ELSE g[q]]

\* (*os.File).Write
Write(f, p, body) == [f EXCEPT ![p] = File(now, body)]

\* os.Chtimes
Chtimes(f, p, t) == [f EXCEPT ![p].mtime = t]

\* os.RemoveAll
RemoveAll(f, p) ==
    LET g == IF p \in DOMAIN f THEN TouchParent(f, p) ELSE f
    IN [q \in {r \in DOMAIN g : ~IsUnder(r, p)} |-> g[q]]

\* ioutil.ReadDir: the directory's entries (name, IsDir), sorted by name.
RECURSIVE SortNames(_)
SortNames(S) ==
    IF S = {} THEN <<>>
    ELSE LET m == CHOOSE x \in S : \A y \in S \ {x} : StrLess(x, y)
         IN <<m>> \o SortNames(S \ {m})
ReadDir(f, d) ==
    LET names == {Last(q) : q \in {r \in DOMAIN f : Len(r) = Len(d) + 1 /\ IsUnder(r, d)}}
        sorted == SortNames(names)
    IN [k \in 1..Len(sorted) |->
          [Name |-> sorted[k], IsDir |-> f[Append(d, sorted[k])].kind = "d"]]

\* A check that takes every directory for a managed one.
isManagedDirectoryNoMarker(f, basePath, fi, statErr) == fi.IsDir

\* isManagedDirectory: a directory whose marker os.Stat finds; false on any
\* error of that Stat.
isManagedDirectory(f, basePath, fi, statErr) ==
    IF ~fi.IsDir THEN FALSE
    ELSE LET markerFile == Resolve(Join(Join(basePath, fi.Name), dirMarker))
             st == IF statErr THEN "error" ELSE Stat(f, markerFile)
         IN st = "ok"

\* excludes.Set
Set(e, value) == Append(e, cleanPath(value))

\* baseURL + fileDownloadURL + url.QueryEscape(remoteFilename)
DownloadRequest(remoteFilename) == [name |-> QueryEscape(remoteFilename)]

\* ------------------------------------------------------------ the run
outDirFlag == <<"/", "o">>
dirToBackup == sysDir

EmptyFl == [Dir |-> <<>>, Files |-> <<>>, next |-> 0]
Frame(folder, outDir) ==
    [folder |-> folder, outDir |-> outDir, fl |-> EmptyFl, pc |-> "enter",
     i |-> 1, files |-> <<>>]

Top == Last(stack)
WithTop(fr) == Append(Front(stack), fr)

\* One entry of the log: a remote request (remote, first) or a local
\* operation (local), whether it succeeded, and the depth of the syncFolder
\* call that performed it.
Ev(op, remotePath, first, localPath, ok) ==
    [run |-> run, op |-> op, remote |-> remotePath, first |-> first,
     local |-> localPath, ok |-> ok, depth |-> Len(stack)]

Proceed(evs, newfs, newStack, injected) ==
    /\ log' = log \o evs
    /\ fs' = newfs
    /\ faults' = faults + (IF injected THEN 1 ELSE 0)
    /\ stack' = newStack
    /\ status' = IF newStack = <<>> THEN "done" ELSE "running"
    /\ UNCHANGED <<remote, pageSize, echo, asked, excls, removeLocal, fs0, now, run, fetched>>

\* `return err` from every frame up to main's log.Fatal(err)
Abort(evs, newfs, injected) ==
    /\ log' = log \o evs
    /\ fs' = newfs
    /\ faults' = faults + (IF injected THEN 1 ELSE 0)
    /\ stack' = <<>>
    /\ status' = "failed"
    /\ UNCHANGED <<remote, pageSize, echo, asked, excls, removeLocal, fs0, now, run, fetched>>

\* main, after flag parsing and connect: syncFolder(address,
\* cleanPath(dirToBackup), absPath, ...)
Main ==
    /\ status \in {"idle", "done"}
    /\ run < MaxRuns
    /\ stack' = <<Frame(cleanPath(dirToBackup), Abs(outDirFlag))>>
    /\ status' = "running"
    /\ run' = run + 1
    /\ UNCHANGED <<remote, pageSize, echo, asked, excls, removeLocal, fs, fs0, now, log,
                   faults, fetched>>

\* The wall clock advances.
Tick ==
    /\ now < MaxClock
    /\ status \in {"idle", "running"} \/ (status = "done" /\ run < MaxRuns)
    /\ now' = now + 1
    /\ UNCHANGED <<remote, pageSize, echo, asked, excls, removeLocal, fs, fs0, stack, status,
                   run, log, faults, fetched>>

\* syncFolder, lines 299-303: an excluded folder returns at once.
syncFolderExcluded ==
    /\ status = "running"
    /\ Top.pc = "enter"
    /\ Contains(excls, Top.folder)
    /\ Proceed(<<>>, fs, Front(stack), FALSE)

\* syncFolder, lines 305-309: fetch the listing; f = "list" is a transport
\* failure or a malformed response.
syncFolderFetch(f) ==
    /\ status = "running"
    /\ Top.pc = "enter"
    /\ ~Contains(excls, Top.folder)
    /\ f # "none" => faults < MaxFaults
    /\ LET dir == QueryEscape(Top.folder)
           reqs == getFileListRequests(dir, 0)
           evOf(r, ok) == Ev("list", QueryUnescape(r.dir),
                             IF "first" \in DOMAIN r THEN r.first ELSE 0, <<>>, ok)
       IN IF f = "list"
          THEN Abort(<<evOf(reqs[1], FALSE)>>, fs, TRUE)
          ELSE Proceed([k \in 1..Len(reqs) |-> evOf(reqs[k], TRUE)], fs,
                       WithTop([Top EXCEPT !.fl = getFileList(dir, 0),
                                           !.pc = "ensure"]), FALSE)

\* ensureOutDirExists, called first by updateLocalFiles.
ensureOutDirExists(f) ==
    /\ status = "running"
    /\ Top.pc = "ensure"
    /\ f # "none" => faults < MaxFaults
    /\ LET path == Abs(Top.outDir)
           p == Resolve(path)
           st == IF f = "stat" THEN "error" ELSE Stat(fs, p)
           evStat == <<Ev("stat", <<>>, 0, p, st # "error")>>
           mkOk == f # "mkdir" /\ MkdirAllOk(fs, p)
           evMk == IF st = "notexist" THEN <<Ev("mkdir", <<>>, 0, p, mkOk)>> ELSE <<>>
           fs1 == IF st = "notexist" /\ mkOk THEN MkdirAll(fs, p) ELSE fs
           marker == Resolve(Join(path, dirMarker))
           crOk == f # "create" /\ CreateOk(fs1, marker)
       IN /\ f = "mkdir" => st = "notexist"
          /\ f = "create" => CreateOk(fs1, marker)
          /\ IF st = "error" THEN Abort(evStat, fs, f # "none")
             ELSE IF st = "notexist" /\ ~mkOk THEN Abort(evStat \o evMk, fs, f # "none")
             ELSE IF ~crOk
                  THEN Abort(evStat \o evMk \o <<Ev("marker", <<>>, 0, marker, FALSE)>>,
                             fs1, f # "none")
                  ELSE Proceed(evStat \o evMk \o <<Ev("marker", <<>>, 0, marker, TRUE)>>,
                               Create(fs1, marker),
                               WithTop([Top EXCEPT !.pc = "update", !.i = 1]), FALSE)

\* updateLocalFiles, lines 182-242: one iteration of the loop over fl.Files.
updateLocalFilesStep(f) ==
    /\ status = "running"
    /\ Top.pc = "update"
    /\ Top.i <= Len(Top.fl.Files)
    /\ LET file == Top.fl.Files[Top.i]
           remoteFilename == Top.fl.Dir \o <<"/">> \o file.Name
           fileName == Join(Top.outDir, file.Name)
           p == Resolve(fileName)
           next == WithTop([Top EXCEPT !.i = Top.i + 1])
           skip == file.Type = typeDirectory \/ Contains(excls, remoteFilename)
           st == IF f = "stat" THEN "error" ELSE Stat(fs, p)
           stale == st = "notexist" \/ (st = "ok" /\ fs[p].mtime < file.Date)
           req == DownloadRequest(remoteFilename)
           body == ServerDownload(req)
           evStat == Ev("stat", <<>>, 0, p, st # "error")
           evDl == Ev("download", QueryUnescape(req.name), 0, <<>>, f # "download")
           crOk == f # "create" /\ CreateOk(fs, p)
           fs1 == Create(fs, p)
           fs2 == Write(fs1, p, body)
           fs3 == IF f = "chtimes" THEN fs2 ELSE Chtimes(fs2, p, file.Date)
       IN /\ f # "none" => faults < MaxFaults /\ ~skip
          /\ f \in {"download", "create", "write", "chtimes"} => st # "error" /\ stale
          /\ f \in {"create", "write", "chtimes"} => CreateOk(fs, p)
          /\ IF skip THEN Proceed(<<>>, fs, next, FALSE)
             ELSE IF st = "error" THEN Abort(<<evStat>>, fs, f # "none")
             ELSE IF ~stale THEN Proceed(<<evStat>>, fs, next, FALSE)
             ELSE IF f = "download" THEN Abort(<<evStat, evDl>>, fs, TRUE)
             ELSE IF ~crOk
                  THEN Abort(<<evStat, evDl, Ev("create", <<>>, 0, p, FALSE)>>, fs,
                             f # "none")
             ELSE IF f = "write"
                  THEN Abort(<<evStat, evDl, Ev("create", <<>>, 0, p, TRUE),
                               Ev("write", <<>>, 0, p, FALSE)>>, fs1, TRUE)
             \* line 235: the error of os.Chtimes is dropped
             ELSE Proceed(<<evStat, evDl, Ev("create", <<>>, 0, p, TRUE),
                            Ev("write", <<>>, 0, p, TRUE),
                            Ev("chtimes", <<>>, 0, p, f # "chtimes")>>,
                          fs3, next, f # "none")

\* A return from updateLocalFiles that goes on to removeDeletedFiles whatever
\* the flag says.
updateLocalFilesReturnAlwaysReclaim ==
    /\ status = "running"
    /\ Top.pc = "update"
    /\ Top.i > Len(Top.fl.Files)
    /\ Proceed(<<>>, fs, WithTop([Top EXCEPT !.pc = "reclaim", !.i = 1]), FALSE)

\* A return from updateLocalFiles that goes on to the recursion whatever the
\* flag says.
updateLocalFilesReturnNeverReclaim ==
    /\ status = "running"
    /\ Top.pc = "update"
    /\ Top.i > Len(Top.fl.Files)
    /\ Proceed(<<>>, fs, WithTop([Top EXCEPT !.pc = "recurse", !.i = 1]), FALSE)

\* updateLocalFiles returns nil; syncFolder, line 316, tests removeLocal.
updateLocalFilesReturn ==
    /\ status = "running"
    /\ Top.pc = "update"
    /\ Top.i > Len(Top.fl.Files)
    /\ Proceed(<<>>, fs,
               WithTop([Top EXCEPT !.pc = IF removeLocal THEN "reclaim" ELSE "recurse",
                                   !.i = 1]), FALSE)

\* removeDeletedFiles, lines 267-276: read the local directory.
removeDeletedFilesReadDir(f) ==
    /\ status = "running"
    /\ Top.pc = "reclaim"
    /\ f # "none" => faults < MaxFaults
    /\ LET d == Resolve(Top.outDir)
           ok == f # "readdir" /\ Stat(fs, d) = "ok" /\ fs[d].kind = "d"
       IN IF ~ok THEN Abort(<<Ev("readdir", <<>>, 0, d, FALSE)>>, fs, f # "none")
          ELSE Proceed(<<Ev("readdir", <<>>, 0, d, TRUE)>>, fs,
                       WithTop([Top EXCEPT !.files = ReadDir(fs, d), !.pc = "remove",
                                           !.i = 1]), FALSE)

\* A name set that holds the names of the directory entries only.
existingFilesOfDirectories(fl) ==
    {fl.Files[k].Name : k \in {j \in 1..Len(fl.Files) : fl.Files[j].Type = typeDirectory}}

\* removeDeletedFiles, lines 268-271: existingFiles, the names in the listing.
existingFiles(fl) == {fl.Files[k].Name : k \in 1..Len(fl.Files)}

\* removeDeletedFiles, lines 278-292: one iteration of the loop over files.
removeDeletedFilesStep(f) ==
    /\ status = "running"
    /\ Top.pc = "remove"
    /\ Top.i <= Len(Top.files)
    /\ LET fi == Top.files[Top.i]
           exists == fi.Name \in existingFiles(Top.fl)
           managed == isManagedDirectory(fs, Top.outDir, fi, f = "stat")
           p == Resolve(Join(Top.outDir, fi.Name))
           evStat == IF fi.IsDir
                     THEN <<Ev("stat", <<>>, 0, Append(p, dirMarker), f # "stat")>>
                     ELSE <<>>
           next == WithTop([Top EXCEPT !.i = Top.i + 1])
       IN /\ f # "none" => faults < MaxFaults /\ ~exists
          /\ f = "stat" => fi.IsDir
          /\ f = "removeall" => managed /\ fi.Name # dirMarker
          /\ IF exists THEN Proceed(<<>>, fs, next, FALSE)
             ELSE IF ~managed \/ fi.Name = dirMarker
                  THEN Proceed(evStat, fs, next, f # "none")
             ELSE IF f = "removeall"
                  THEN Abort(evStat \o <<Ev("removeall", <<>>, 0, p, FALSE)>>, fs, TRUE)
                  ELSE Proceed(evStat \o <<Ev("removeall", <<>>, 0, p, TRUE)>>,
                               RemoveAll(fs, p), next, FALSE)

\* removeDeletedFiles returns nil.
removeDeletedFilesReturn ==
    /\ status = "running"
    /\ Top.pc = "remove"
    /\ Top.i > Len(Top.files)
    /\ Proceed(<<>>, fs, WithTop([Top EXCEPT !.pc = "recurse", !.i = 1]), FALSE)

\* A loop of recursive calls that walks fl.Files from its end.
syncFolderRecurseBackwards ==
    /\ status = "running"
    /\ Top.pc = "recurse"
    /\ Top.i <= Len(Top.fl.Files)
    /\ LET file == Top.fl.Files[Len(Top.fl.Files) + 1 - Top.i]
           remoteFilename == Top.fl.Dir \o <<"/">> \o file.Name
           fileName == Join(Top.outDir, file.Name)
           next == WithTop([Top EXCEPT !.i = Top.i + 1])
       IN IF file.Type # typeDirectory THEN Proceed(<<>>, fs, next, FALSE)
          ELSE Proceed(<<>>, fs, Append(next, Frame(remoteFilename, fileName)), FALSE)

\* syncFolder, lines 324-333: one iteration of the loop over fl.Files; a
\* directory entry is a recursive call.
syncFolderRecurse ==
    /\ status = "running"
    /\ Top.pc = "recurse"
    /\ Top.i <= Len(Top.fl.Files)
    /\ LET file == Top.fl.Files[Top.i]
           remoteFilename == Top.fl.Dir \o <<"/">> \o file.Name
           fileName == Join(Top.outDir, file.Name)
           next == WithTop([Top EXCEPT !.i = Top.i + 1])
       IN IF file.Type # typeDirectory THEN Proceed(<<>>, fs, next, FALSE)
          ELSE Proceed(<<>>, fs, Append(next, Frame(remoteFilename, fileName)), FALSE)

\* syncFolder returns nil.
syncFolderReturn ==
    /\ status = "running"
    /\ Top.pc = "recurse"
    /\ Top.i > Len(Top.fl.Files)
    /\ Proceed(<<>>, fs, Front(stack), FALSE)

\* ------------------------------------------------------- initial states
nameA == <<"a">>
nameB == <<"b">>
nameX == <<"x">>
nameY == <<"y">>

SeqsUpTo(S, n) == UNION {[1..k -> S] : k \in 0..n}

\* What a listing of the backed-up directory may hold: a subdirectory, files
\* with every date, and a file that carries the marker's name.
RootEntries ==
    {Entry(typeDirectory, nameA, 1), Entry(typeFile, nameB, 1),
     Entry(typeFile, dirMarker, MaxDate)}
    \cup {Entry(typeFile, nameA, d) : d \in 1..MaxDate}
SubListings == {<<>>, <<Entry(typeFile, nameB, 1)>>}

DirNames(l) == {l[k].Name : k \in {j \in 1..Len(l) : l[j].Type = typeDirectory}}

Trees ==
    UNION {LET dirs == {sysDir \o <<"/">> \o n : n \in DirNames(l)}
           IN {(sysDir :> l) @@ sub : sub \in [dirs -> SubListings]}
           : l \in SeqsUpTo(RootEntries, MaxEntries)}

\* Local trees a run may find: none, or an output directory left by earlier
\* runs or by the user.
oldData == <<"o", "l", "d">>
outSegs == Resolve(outDirFlag)
At(names) == outSegs \o names
NoLocal == <<>> :> Dir(1)
Managed == NoLocal @@ (outSegs :> Dir(1)) @@ (At(<<dirMarker>>) :> File(1, <<>>))
LocalStates ==
    {NoLocal,
     NoLocal @@ (outSegs :> Dir(1)) @@ (At(<<nameX>>) :> File(1, oldData)),
     Managed @@ (At(<<nameB>>) :> File(1, oldData))
             @@ (At(<<nameA>>) :> Dir(1))
             @@ (At(<<nameA, dirMarker>>) :> File(1, <<>>))
             @@ (At(<<nameA, nameX>>) :> File(1, oldData)),
     Managed @@ (At(<<nameX>>) :> Dir(1))
             @@ (At(<<nameY>>) :> Dir(1))
             @@ (At(<<nameY, dirMarker>>) :> File(1, <<>>))
             @@ (At(<<nameY, nameX>>) :> Dir(1))}
    \cup {Managed @@ (At(<<nameA>>) :> File(t, oldData)) : t \in 1..MaxDate}

ExcludeChoices == {<<>>, Set(<<>>, sysDir \o <<"/">> \o nameA \o <<"/">>)}

Init ==
    /\ remote \in Trees
    /\ pageSize \in 1..MaxEntries
    /\ excls \in ExcludeChoices
    /\ removeLocal \in BOOLEAN
    /\ fs \in LocalStates
    /\ fs0 = fs
    /\ now = 1
    /\ stack = <<>>
    /\ status = "idle"
    /\ run = 0
    /\ log = <<>>
    /\ faults = 0
    /\ fetched = <<>>
    /\ echo = "same"
    /\ asked = <<>>

Next ==
    \/ Main
    \/ Tick
    \/ syncFolderExcluded
    \/ \E f \in {"none", "list"} : syncFolderFetch(f)
    \/ \E f \in {"none", "stat", "mkdir", "create"} : ensureOutDirExists(f)
    \/ \E f \in {"none", "stat", "download", "create", "write", "chtimes"} :
          updateLocalFilesStep(f)
    \/ updateLocalFilesReturn
    \/ \E f \in {"none", "readdir"} : removeDeletedFilesReadDir(f)
    \/ \E f \in {"none", "stat", "removeall"} : removeDeletedFilesStep(f)
    \/ removeDeletedFilesReturn
    \/ syncFolderRecurse
    \/ syncFolderReturn

Spec == Init /\ [][Next]_vars

\* ------------------------------------------- the fetcher on its own
ListEntries ==
    {Entry(typeDirectory, nameA, 1), Entry(typeDirectory, nameB, 1),
     Entry(typeFile, nameB, 1)}
    \cup {Entry(typeFile, nameA, d) : d \in 1..MaxDate}

InitList ==
    /\ remote \in {sysDir :> l : l \in SeqsUpTo(ListEntries, MaxLen)}
    /\ pageSize \in 1..MaxLen
    /\ excls = <<>>
    /\ removeLocal = FALSE
    /\ fs = NoLocal
    /\ fs0 = fs
    /\ now = 1
    /\ stack = <<>>
    /\ status = "idle"
    /\ run = 0
    /\ log = <<>>
    /\ faults = 0
    /\ fetched = <<>>
    /\ echo = "same"
    /\ asked = <<>>

FetchList ==
    /\ fetched = <<>>
    /\ fetched' = <<getFileList(QueryEscape(sysDir), 0)>>
    /\ UNCHANGED <<remote, pageSize, echo, asked, excls, removeLocal, fs, fs0, now, stack,
                   status, run, log, faults>>

NextList == FetchList

SpecList == InitList /\ [][NextList]_vars

\* ------------------------- one visit of a directory, up to the recursion
\* syncFolder's body from updateLocalFiles to the end of removeDeletedFiles,
\* for every listing getFileList can return and every local tree.
InitVisit ==
    /\ \E l \in SeqsUpTo(RootEntries, MaxEntries) :
          /\ remote = (sysDir :> l)
          /\ stack = <<[Frame(cleanPath(dirToBackup), Abs(outDirFlag)) EXCEPT
                          !.fl = [Dir |-> sysDir, Files |-> SliceStable(l), next |-> 0],
                          !.pc = "ensure"]>>
    /\ pageSize = MaxEntries
    /\ excls \in ExcludeChoices
    /\ removeLocal = TRUE
    /\ fs \in LocalStates
    /\ fs0 = fs
    /\ now = 1
    /\ status = "running"
    /\ run = 1
    /\ log = <<>>
    /\ faults = 0
    /\ fetched = <<>>
    /\ echo = "same"
    /\ asked = <<>>

NextVisit ==
    \/ \E f \in {"none", "stat", "mkdir", "create"} : ensureOutDirExists(f)
    \/ \E f \in {"none", "stat", "download", "create", "write", "chtimes"} :
          updateLocalFilesStep(f)
    \/ updateLocalFilesReturn
    \/ \E f \in {"none", "readdir"} : removeDeletedFilesReadDir(f)
    \/ \E f \in {"none", "stat", "removeall"} : removeDeletedFilesStep(f)
    \/ removeDeletedFilesReturn

SpecVisit == InitVisit /\ [][NextVisit]_vars

\* --------------------------------------- the exclude matcher on its own
\* -exclude values and queried paths: every string of slashes and letters.
PathChars == {"a", "/"}
Paths == SeqsUpTo(PathChars, MaxLen)

InitExcl ==
    /\ remote = (sysDir :> <<>>)
    /\ pageSize = 1
    /\ excls = <<>>
    /\ removeLocal = FALSE
    /\ fs = NoLocal
    /\ fs0 = fs
    /\ now = 1
    /\ stack = <<>>
    /\ status = "idle"
    /\ run = 0
    /\ log = <<>>
    /\ faults = 0
    /\ fetched = <<>>
    /\ echo = "same"
    /\ asked = <<>>

\* flag.Var(&sysDirs, "exclude", ...): one -exclude value is registered.
Register ==
    /\ asked = <<>>
    /\ Len(excls) < 2
    /\ \E value \in Paths : excls' = Set(excls, value)
    /\ UNCHANGED <<remote, pageSize, echo, asked, removeLocal, fs, fs0, now, stack,
                   status, run, log, faults, fetched>>

\* One call excludes.Contains(path).
Ask ==
    /\ asked = <<>>
    /\ \E path \in Paths :
          asked' = <<[path |-> path, answer |-> Contains(excls, path)]>>
    /\ UNCHANGED <<remote, pageSize, echo, excls, removeLocal, fs, fs0, now, stack,
                   status, run, log, faults, fetched>>

NextExcl == Register \/ Ask

SpecExcl == InitExcl /\ [][NextExcl]_vars

\* ------------------------------------------------ one run over a tree
\* One call syncFolder(address, cleanPath(dirToBackup), absPath, ...) from
\* its first line to its return, over trees with two subdirectories.
TreeEntries ==
    {Entry(typeDirectory, nameA, 1), Entry(typeDirectory, nameB, 1),
     Entry(typeFile, nameA, MaxDate), Entry(typeFile, nameB, 1)}

TreesOver(E) ==
    UNION {LET dirs == {sysDir \o <<"/">> \o n : n \in DirNames(l)}
           IN {(sysDir :> l) @@ sub : sub \in [dirs -> SubListings]}
           : l \in SeqsUpTo(E, MaxEntries)}

\* The mirror an earlier run left: a file and a managed subdirectory.
OldMirror ==
    Managed @@ (At(<<nameB>>) :> File(1, oldData))
            @@ (At(<<nameA>>) :> Dir(1))
            @@ (At(<<nameA, dirMarker>>) :> File(1, <<>>))
            @@ (At(<<nameA, nameX>>) :> File(1, oldData))

\* The same without the file: only the managed subdirectory.
OldDir ==
    Managed @@ (At(<<nameA>>) :> Dir(1))
            @@ (At(<<nameA, dirMarker>>) :> File(1, <<>>))
            @@ (At(<<nameA, nameX>>) :> File(1, oldData))

InitTree ==
    /\ remote \in TreesOver(TreeEntries)
    /\ pageSize \in {1, MaxEntries}
    /\ excls \in ExcludeChoices
    /\ removeLocal \in BOOLEAN
    /\ fs \in {NoLocal, OldMirror, OldDir}
    /\ fs0 = fs
    /\ now = 1
    /\ stack = <<Frame(cleanPath(dirToBackup), Abs(outDirFlag))>>
    /\ status = "running"
    /\ run = 1
    /\ log = <<>>
    /\ faults = 0
    /\ fetched = <<>>
    /\ echo = "same"
    /\ asked = <<>>

NextTree ==
    \/ syncFolderExcluded
    \/ \E f \in {"none", "list"} : syncFolderFetch(f)
    \/ \E f \in {"none", "stat", "mkdir", "create"} : ensureOutDirExists(f)
    \/ \E f \in {"none", "stat", "download", "create", "write", "chtimes"} :
          updateLocalFilesStep(f)
    \/ updateLocalFilesReturn
    \/ \E f \in {"none", "readdir"} : removeDeletedFilesReadDir(f)
    \/ \E f \in {"none", "stat", "removeall"} : removeDeletedFilesStep(f)
    \/ removeDeletedFilesReturn
    \/ syncFolderRecurse
    \/ syncFolderReturn

SpecTree == InitTree /\ [][NextTree]_vars

\* --------------------------------------- one run against any device
\* The same call of syncFolder, for a device whose answers are not taken on
\* trust: entry names are whatever strings the JSON holds, with path
\* separators and ".." among them, and the directory named in the answer
\* need not be spelled as it was asked for.
nameUp == <<".", ".">>
nameUpX == <<".", ".", "/", "x">>
DeviceEntries ==
    {Entry(typeDirectory, nameA, 1), Entry(typeFile, nameA, 1),
     Entry(typeDirectory, nameUp, 1), Entry(typeFile, nameUpX, 1)}

InitDevice ==
    /\ remote \in TreesOver(DeviceEntries)
    /\ pageSize = MaxEntries
    /\ excls \in ExcludeChoices
    /\ removeLocal \in BOOLEAN
    /\ fs \in {NoLocal, OldMirror}
    /\ fs0 = fs
    /\ now = 1
    /\ stack = <<Frame(cleanPath(dirToBackup), Abs(outDirFlag))>>
    /\ status = "running"
    /\ run = 1
    /\ log = <<>>
    /\ faults = 0
    /\ fetched = <<>>
    /\ echo \in {"same", "slash"}
    /\ asked = <<>>

SpecDevice == InitDevice /\ [][NextTree]_vars

\* ================================================================ claims
Range(s) == {s[k] : k \in 1..Len(s)}
Running(pc) == status = "running" /\ stack # <<>> /\ Top.pc = pc
MarkerOf(d) == Append(d, dirMarker)
AddedEvents == {log'[k] : k \in (Len(log) + 1)..Len(log')}
Did(evs, op) == \E e \in evs : e.op = op /\ e.ok

\* The remote directories of the tree, each with the local directory that
\* mirrors it.
RECURSIVE RemoteDirs(_, _)
RemoteDirs(P, L) ==
    {<<P, L>>} \cup
    (IF P \in DOMAIN remote
     THEN UNION {RemoteDirs(P \o <<"/">> \o n, Append(L, n)) : n \in DirNames(remote[P])}
     ELSE {})
AllRemoteDirs == RemoteDirs(sysDir, outSegs)

\* ---- C1
UpdatingFile ==
    /\ Running("update")
    /\ Top.i <= Len(Top.fl.Files)
    /\ Top.fl.Files[Top.i].Type # typeDirectory
    /\ ~Contains(excls, Top.fl.Dir \o <<"/">> \o Top.fl.Files[Top.i].Name)
    /\ log' # log
    /\ status' # "failed"
UpdPath == Resolve(Join(Top.outDir, Top.fl.Files[Top.i].Name))
UpdStale == UpdPath \notin DOMAIN fs \/ fs[UpdPath].mtime < Top.fl.Files[Top.i].Date

\* C1, first half: an entry the exclude set does not match is downloaded and
\* written iff the local file is absent or strictly older than modifiedAt.
C1_DownloadIffStale ==
    [][UpdatingFile =>
         /\ Did(AddedEvents, "download") <=> UpdStale
         /\ Did(AddedEvents, "write") <=> UpdStale]_vars

\* C1: an entry the exclude set does not match is downloaded and written iff
\* the local file is absent or strictly older than modifiedAt, and after every
\* download the run treats as successful the local modification time is
\* modifiedAt.
C1_DownloadSetsModTime ==
    [][UpdatingFile =>
         /\ Did(AddedEvents, "download") <=> UpdStale
         /\ Did(AddedEvents, "write") <=> UpdStale
         /\ Did(AddedEvents, "download") =>
               fs'[UpdPath].mtime = Top.fl.Files[Top.i].Date]_vars

\* ---- C2
\* C2: a run that follows a successful run over the same remote tree, with
\* the same excludes and flags, downloads nothing.
C2_SecondRunDownloadsNothing ==
    \A k \in 1..Len(log) : log[k].run >= 2 => log[k].op # "download"

\* ---- C3
Reclaiming == Running("remove") /\ Top.i <= Len(Top.files)
Deleted == DOMAIN fs \ DOMAIN fs'
ReclaimedDir == Resolve(Top.outDir)

\* C3 as stated: the Reclaimer never deletes the marker of the directory it
\* reclaims, nor any local directory that lacks its own marker.
C3_NeverDeletesAnyUnmanaged ==
    [][Reclaiming =>
         \A q \in Deleted :
            /\ q # MarkerOf(ReclaimedDir)
            /\ fs[q].kind = "d" => MarkerOf(q) \in DOMAIN fs]_vars

\* C3, amended: the Reclaimer never deletes the marker of the directory it
\* reclaims, nor an immediate child directory that lacks its own marker.
C3_NeverDeletesUnmanagedChild ==
    [][Reclaiming =>
         \A q \in Deleted :
            /\ q # MarkerOf(ReclaimedDir)
            /\ (fs[q].kind = "d" /\ Len(q) = Len(ReclaimedDir) + 1)
                  => MarkerOf(q) \in DOMAIN fs]_vars

\* A reclaim that has deleted a managed child and has left the marker and an
\* unmanaged child directory that the listing does not name.
C3_Witness ==
    /\ Running("recurse")
    /\ \E e \in Range(log) : e.op = "removeall" /\ e.ok
    /\ MarkerOf(ReclaimedDir) \in DOMAIN fs
    /\ At(<<nameX>>) \in DOMAIN fs /\ fs[At(<<nameX>>)].kind = "d"
    /\ MarkerOf(At(<<nameX>>)) \notin DOMAIN fs
    /\ nameX \notin {Top.fl.Files[k].Name : k \in 1..Len(Top.fl.Files)}

\* ---- C4
ChildrenOf(f, d) == {q \in DOMAIN f : Len(q) = Len(d) + 1 /\ IsUnder(q, d)}

\* C4: with deletion enabled, once the reclaim of a directory has completed,
\* no immediate child is left whose name the remote listing lacks, unless it
\* is the marker or a directory without its own marker.
C4_StaleChildrenDeleted ==
    (Running("recurse") /\ Top.i = 1 /\ removeLocal /\ Top.folder \in DOMAIN remote) =>
        \A q \in ChildrenOf(fs, ReclaimedDir) :
            \/ Last(q) \in {e.Name : e \in Range(remote[Top.folder])}
            \/ Last(q) = dirMarker
            \/ fs[q].kind = "d" /\ MarkerOf(q) \notin DOMAIN fs

\* ---- C5
UnderRemote(path, P) == path = P \/ HasPrefix(path, P \o <<"/">>)
LocalChangeOps == {"mkdir", "marker", "create", "write", "chtimes", "removeall"}

\* C5: for a remote directory the exclude set matches, no listing is fetched
\* and nothing is downloaded at or under it, and nothing changes at or under
\* the local path that mirrors it.
C5_ExcludedUntouched ==
    \A d \in AllRemoteDirs :
        Contains(excls, d[1]) =>
            \A k \in 1..Len(log) :
                /\ log[k].op \in {"list", "download"} => ~UnderRemote(log[k].remote, d[1])
                /\ (log[k].op \in LocalChangeOps /\ log[k].ok) => ~IsUnder(log[k].local, d[2])

\* ---- C6, C7
Rank(e) == IF e.Type = typeDirectory THEN 0 ELSE 1
KeyEq(x, y) == Rank(x) = Rank(y) /\ x.Name = y.Name
KeyLE(x, y) ==
    \/ Rank(x) < Rank(y)
    \/ Rank(x) = Rank(y) /\ ~StrLess(y.Name, x.Name)

\* r holds the entries of s, directories first, names ascending within a
\* kind, entries of equal kind and name in the order they have in s.
IsStableSortOf(r, s) ==
    /\ Len(r) = Len(s)
    /\ \A i, j \in 1..Len(r) : i < j => KeyLE(r[i], r[j])
    /\ \E p \in [1..Len(r) -> 1..Len(s)] :
          /\ \A i, j \in 1..Len(r) : i < j => p[i] # p[j]
          /\ \A i \in 1..Len(r) : r[i] = s[p[i]]
          /\ \A i, j \in 1..Len(r) : (i < j /\ KeyEq(r[i], r[j])) => p[i] < p[j]

\* The entries of the pages the fetcher asked for, concatenated.
RECURSIVE Concat(_)
Concat(ss) == IF ss = <<>> THEN <<>> ELSE ss[1] \o Concat(Tail(ss))
FetchedEntries ==
    LET reqs == getFileListRequests(QueryEscape(sysDir), 0)
    IN Concat([k \in 1..Len(reqs) |-> ServerFileList(reqs[k]).files])

\* C6: getFileList returns the entries of all pages of the directory, sorted,
\* however the device cuts the listing into pages.
C6_AllPagesReturned ==
    fetched # <<>> => IsStableSortOf(fetched[1].Files, remote[sysDir])

\* C7: what getFileList returns is a permutation of the entries it fetched,
\* directories before files, names ascending within a kind, entries of equal
\* kind and name in arrival order.
C7_SortedStable ==
    fetched # <<>> => IsStableSortOf(fetched[1].Files, FetchedEntries)

\* A fetch of three entries that arrived as file, directory, file, where the
\* two files have the same name and different dates.
C7_Witness ==
    /\ fetched # <<>>
    /\ Len(fetched[1].Files) = 3
    /\ FetchedEntries[1].Type = typeFile
    /\ FetchedEntries[2].Type = typeDirectory
    /\ KeyEq(FetchedEntries[1], FetchedEntries[3])
    /\ FetchedEntries[1].Date > FetchedEntries[3].Date
    /\ fetched[1].Files = <<FetchedEntries[2], FetchedEntries[1], FetchedEntries[3]>>

\* ---- C8
FatalOps ==
    {"list", "download", "mkdir", "marker", "create", "write", "chtimes",
     "readdir", "removeall"}

\* C8: an operation of the sync that fails is the last thing the run does,
\* and the run ends with an error.
C8_FailFast ==
    \A k \in 1..Len(log) :
        (log[k].op \in FatalOps /\ ~log[k].ok) => (status = "failed" /\ k = Len(log))

\* ---- C9
\* Every directory of the tree lists distinct names, none the marker's.
PlainTree ==
    \A P \in DOMAIN remote :
        /\ \A i, j \in 1..Len(remote[P]) : i # j => remote[P][i].Name # remote[P][j].Name
        /\ \A i \in 1..Len(remote[P]) : remote[P][i].Name # dirMarker

MirrorPaths ==
    {<<>>} \cup {SubSeq(outSegs, 1, k) : k \in 1..Len(outSegs)}
    \cup UNION {{d[2], MarkerOf(d[2])} : d \in AllRemoteDirs}
    \cup UNION {{Append(d[2], e.Name) : e \in Range(remote[d[1]])}
                : d \in {x \in AllRemoteDirs : x[1] \in DOMAIN remote}}

\* C9: after a successful run from an empty local tree with no excludes, the
\* local tree is the remote tree: a directory with its marker for every
\* remote directory, a file with the downloaded bytes and modifiedAt for
\* every remote file, and nothing else.
C9_MirrorsRemote ==
    (status = "done" /\ run = 1 /\ fs0 = NoLocal /\ excls = <<>> /\ PlainTree) =>
        /\ DOMAIN fs = MirrorPaths
        /\ \A d \in AllRemoteDirs :
              /\ fs[d[2]].kind = "d"
              /\ fs[MarkerOf(d[2])].kind = "f"
              /\ d[1] \in DOMAIN remote =>
                    \A e \in Range(remote[d[1]]) :
                        e.Type = typeFile =>
                            fs[Append(d[2], e.Name)] =
                                File(e.Date, d[1] \o <<"/">> \o e.Name)

\* ---- C10
\* C10: no step downloads into, replaces, removes or descends into a marker:
\* the only operation on a path that ends in the marker's name is the marker
\* write of ensureOutDirExists, and no listing is asked for such a path.
C10_MarkerUntouched ==
    \A k \in 1..Len(log) :
        /\ log[k].op \in (LocalChangeOps \ {"marker"}) => Last(log[k].local) # dirMarker
        /\ log[k].op = "list" => ~HasSuffix(log[k].remote, <<"/">> \o dirMarker)

\* ---- C11
\* C11: Contains(p) is true iff the normalized form of p (repeated slashes
\* collapsed, closing slash stripped) begins with some registered normalized
\* prefix.
C11_ContainsNormalized ==
    \A q \in Range(asked) :
        q.answer <=> \E k \in 1..Len(excls) : HasPrefix(cleanPath(q.path), excls[k])

\* ---- C12
\* C12: with removeLocal = false no step of a run deletes a local file or
\* directory: every path present before a step is present after it, and the
\* run never reads a directory for reclaiming nor calls RemoveAll.
C12_NeverDeletes ==
    [][~removeLocal =>
         /\ DOMAIN fs \subseteq DOMAIN fs'
         /\ \A e \in AddedEvents : e.op \notin {"readdir", "removeall"}]_vars

\* A finished run without removeLocal that left in place a managed local
\* directory the remote listing no longer names.
C12_Witness ==
    /\ ~removeLocal
    /\ status = "done"
    /\ nameA \notin {e.Name : e \in Range(remote[sysDir])}
    /\ MarkerOf(At(<<nameA>>)) \in DOMAIN fs
    /\ DOMAIN fs0 \subseteq DOMAIN fs

\* ---- C13
\* C13: every local directory the run has visited (its marker written by
\* ensureOutDirExists) is managed from then on: it exists and directly
\* contains the marker entry, for the rest of the run. Stated for a device
\* that names the directory in its answer as it was asked for.
C13_VisitedStaysManaged ==
    \A k \in 1..Len(log) :
        (echo = "same" /\ log[k].op = "marker" /\ log[k].ok /\ log[k].run = run) =>
            /\ Front(log[k].local) \in DOMAIN fs
            /\ fs[Front(log[k].local)].kind = "d"
            /\ log[k].local \in DOMAIN fs

\* ---- C14
\* The phase of a directory's visit an operation belongs to: 1 the listing
\* fetch, 2 making the directory managed, 3 the update of its files, 4 the
\* reclaim; 0 for os.Stat, which every phase calls.
Phase(op) ==
    CASE op = "list" -> 1
      [] op \in {"mkdir", "marker"} -> 2
      [] op \in {"download", "create", "write", "chtimes"} -> 3
      [] op \in {"readdir", "removeall"} -> 4
      [] OTHER -> 0
Steps == {k \in 1..Len(log) : Phase(log[k].op) > 0}
Max(S) == CHOOSE x \in S : \A y \in S : y <= x
\* The steps of the same run before step k, at any depth or at one depth.
Before(k) == {j \in Steps : j < k /\ log[j].run = log[k].run}
BeforeAt(k, d) == {j \in Before(k) : log[j].depth = d}
\* What may come directly before an operation of each phase, in the same
\* visit.
PhasesBefore(op) ==
    CASE Phase(op) = 2 -> {1, 2}
      [] Phase(op) = 3 -> {2, 3}
      [] op = "readdir" -> {2, 3}
      [] op = "removeall" -> {4}
      [] OTHER -> {}

\* C14: the operations of one visit of a directory come in the order listing
\* fetch, update, reclaim (iff removeLocal), recursion: an excluded directory
\* is never listed; every operation of the update or the reclaim directly
\* follows an operation of the same visit that is of the same or the
\* preceding phase, so that no listing request and no operation of a
\* subdirectory comes between them; and when a subdirectory is listed, the
\* last operation of its parent is the end of the reclaim if removeLocal is
\* set and the end of the update if not.
C14_PhaseOrder ==
    \A k \in Steps :
        LET e == log[k]
        IN /\ e.op = "list" => ~Contains(excls, e.remote)
           /\ Phase(e.op) > 1 =>
                 /\ Before(k) # {}
                 /\ log[Max(Before(k))].depth = e.depth
                 /\ Phase(log[Max(Before(k))].op) \in PhasesBefore(e.op)
           /\ Phase(e.op) = 4 => removeLocal
           /\ (e.op = "list" /\ e.depth > 1) =>
                 /\ BeforeAt(k, e.depth - 1) # {}
                 /\ Phase(log[Max(BeforeAt(k, e.depth - 1))].op) \in
                       (IF removeLocal THEN {4} ELSE {2, 3})

\* A finished run with removeLocal that removed a stale directory while
\* reclaiming the root and then listed a subdirectory and downloaded from it.
C14_Witness ==
    /\ removeLocal
    /\ status = "done"
    /\ \E i, j, k \in 1..Len(log) :
          /\ i < j /\ j < k
          /\ log[i].op = "removeall" /\ log[i].ok /\ log[i].depth = 1
          /\ log[j].op = "list" /\ log[j].depth = 2
          /\ log[k].op = "download" /\ log[k].ok /\ log[k].depth = 2

\* ---- C15
\* The entry name a download or a listing request is for: what its path adds
\* to the path of the listing it comes from, which is the latest listing
\* fetched by the same call (a download) or by the calling one (a listing).
ListedBy(k) ==
    Max(BeforeAt(k, IF log[k].op = "list" THEN log[k].depth - 1 ELSE log[k].depth)
          \cap {j \in Steps : log[j].op = "list"})
EntryName(k) ==
    SubSeq(log[k].remote, Len(log[ListedBy(k)].remote) + 2, Len(log[k].remote))
\* Steps i < j of one run are steps of the same visit of a directory (both
\* at depth d), or of visits of two subdirectories of the same visit (both
\* at depth d + 1), when no listing is fetched at depth d or above between.
NoListBetween(i, j, d) ==
    \A m \in (i + 1)..(j - 1) : ~(log[m].op = "list" /\ log[m].depth <= d)
SameRun(i, j) == i < j /\ log[i].run = log[j].run /\ log[i].depth = log[j].depth

\* C15: the traversal is sequential and depth-first in listing order: the
\* downloads of one visit come in ascending order of name; the
\* subdirectories of one visit are listed in ascending order of name; and
\* once the next sibling's listing is fetched, no request names a path under
\* the earlier sibling and no file operation touches its local directory.
C15_DepthFirstInOrder ==
    \A i, j \in Steps :
        SameRun(i, j) =>
            /\ (log[i].op = "download" /\ log[j].op = "download"
                  /\ NoListBetween(i, j, log[i].depth)) =>
                  ~StrLess(EntryName(j), EntryName(i))
            /\ (log[i].op = "list" /\ log[j].op = "list" /\ log[i].depth > 1
                  /\ NoListBetween(i, j, log[i].depth - 1)) =>
                  /\ ~StrLess(EntryName(j), EntryName(i))
                  /\ log[i].remote # log[j].remote =>
                        \A k \in (j + 1)..Len(log) :
                            /\ ~UnderRemote(log[k].remote, log[i].remote)
                            /\ \A m \in (i + 1)..(j - 1) :
                                  (log[m].op = "marker" /\ log[m].depth = log[i].depth
                                     /\ NoListBetween(i, m, log[i].depth)
                                     /\ log[k].local # <<>>) =>
                                      ~IsUnder(log[k].local, Front(log[m].local))

\* A finished run over a listing that arrived as b, a: subdirectory a was
\* listed and downloaded from, then b was listed and downloaded from.
C15_Witness ==
    /\ status = "done"
    /\ remote[sysDir] # <<>>
    /\ remote[sysDir][1].Name = nameB
    /\ \E i, j, k, l \in 1..Len(log) :
          /\ i < j /\ j < k /\ k < l
          /\ log[i].op = "list" /\ log[i].depth = 2 /\ EntryName(i) = nameA
          /\ log[j].op = "download" /\ log[j].ok /\ log[j].depth = 2
          /\ log[k].op = "list" /\ log[k].depth = 2 /\ EntryName(k) = nameB
          /\ log[l].op = "download" /\ log[l].ok /\ log[l].depth = 2

\* ---- C16
\* The device's answer to the listing request logged at step k.
AnswerTo(k) ==
    ServerFileList([dir |-> QueryEscape(log[k].remote), first |-> log[k].first])

\* C16: whenever the answer to a listing request carries next > 0, the next
\* request is for the same directory with first = that next value.
C16_NextPageRequested ==
    \A k \in 1..Len(log) :
        (log[k].op = "list" /\ log[k].ok /\ AnswerTo(k).next > 0) =>
            /\ k < Len(log)
            /\ log[k + 1].op = "list"
            /\ log[k + 1].remote = log[k].remote
            /\ log[k + 1].first = AnswerTo(k).next

\* ---- C17
\* How often the run has fetched the listing of the remote directory P.
TimesListed(P) ==
    Cardinality({k \in 1..Len(log) : log[k].op = "list" /\ log[k].remote = P})

\* C17: a run that has ended without an error has visited every directory of
\* the tree that is not excluded, once.
C17_EndsHavingVisitedAll ==
    (status = "done" /\ PlainTree) =>
        \A d \in AllRemoteDirs : ~Contains(excls, d[1]) => TimesListed(d[1]) = 1

\* Where a call of syncFolder stands: its phase and its loop index.
PcIndex(pc) ==
    CASE pc = "enter" -> 1 [] pc = "ensure" -> 2 [] pc = "update" -> 3
      [] pc = "reclaim" -> 4 [] pc = "remove" -> 5 [] pc = "recurse" -> 6
FrameBefore(f, g) ==
    PcIndex(f.pc) < PcIndex(g.pc) \/ (f.pc = g.pc /\ f.i < g.i)
\* The call stack t is further on in the traversal than s: the outermost call
\* in which they differ has returned or has moved on.
StackBefore(s, t) ==
    \E k \in 1..Len(s) :
        /\ \A j \in 1..(k - 1) :
              j <= Len(t) /\ t[j].pc = s[j].pc /\ t[j].i = s[j].i
        /\ k > Len(t) \/ FrameBefore(s[k], t[k])

\* The termination half of C17: every step of a run moves the traversal on,
\* so a run over a finite tree takes finitely many steps.
C17_EveryStepAdvances == [][StackBefore(stack, stack')]_vars

\* ---- C18
\* C18: the Reclaimer never deletes an immediate child of the directory it
\* reclaims whose name is the name of an entry of the listing, whatever the
\* kinds of the two and whether or not the entry is excluded.
C18_ListedNamesKept ==
    [][Reclaiming =>
         \A q \in Deleted :
            Len(q) = Len(ReclaimedDir) + 1 =>
                Last(q) \notin {e.Name : e \in Range(Top.fl.Files)}]_vars

\* A completed reclaim that kept the managed local directory a although the
\* listing names a only as a file, and an excluded one.
C18_Witness ==
    /\ Running("recurse")
    /\ \E e \in Range(log) : e.op = "readdir" /\ e.ok
    /\ Contains(excls, Top.fl.Dir \o <<"/">> \o nameA)
    /\ \E e \in Range(Top.fl.Files) : e.Name = nameA
    /\ \A e \in Range(Top.fl.Files) : e.Name = nameA => e.Type = typeFile
    /\ At(<<nameA>>) \in DOMAIN fs /\ fs[At(<<nameA>>)].kind = "d"
    /\ MarkerOf(At(<<nameA>>)) \in DOMAIN fs

\* ---- C19
\* The remote and the local path of the entry the current call is at, built
\* from the paths the call was given.
ChildRemote == Top.folder \o <<"/">> \o Top.fl.Files[Top.i].Name
ChildLocal == Join(Top.outDir, Top.fl.Files[Top.i].Name)

\* C19: the download request of a file and the recursive call for a
\* subdirectory use the remote path the parent was called with, "/" and the
\* entry name, and the parent's local path joined with the entry name,
\* whatever directory the device names in its answer; a file that path
\* excludes is not downloaded.
C19_ChildPathsFromRequest ==
    [][/\ (Running("update") /\ Top.i <= Len(Top.fl.Files)) =>
             \A e \in AddedEvents :
                 /\ e.op = "download" =>
                       e.remote = ChildRemote /\ ~Contains(excls, ChildRemote)
                 /\ e.op = "create" => e.local = Resolve(ChildLocal)
       /\ (Running("recurse") /\ Len(stack') = Len(stack) + 1) =>
             /\ Last(stack').folder = ChildRemote
             /\ Last(stack').outDir = ChildLocal]_vars

\* ---- C20
\* C20: every local path a run creates, writes, sets the time of or deletes
\* lies inside the output directory, whatever names the listing holds.
C20_ConfinedToOutDir ==
    \A k \in 1..Len(log) :
        log[k].op \in LocalChangeOps => IsUnder(log[k].local, Resolve(Abs(outDirFlag)))

====
